---- MODULE Spec2Model ----
(***************************************************************************)
(* A model of the two engines of the deflake package:                      *)
(*   - the execution reducer of generate-flakiness-report (processTest,    *)
(*     analyzeTestResults), and                                            *)
(*   - the MCP selector engine of src/core/mcp.ts (ground, validate,       *)
(*     safeClick / safeFill with their one-shot auto-heal).                *)
(* Scores are kept in hundredths (0.95 is 95) so that they stay integers.  *)
(* An optional JavaScript value is a sequence: <<>> is undefined / null,   *)
(* <<v>> is the value v.                                                   *)
(***************************************************************************)
EXTENDS Integers, Sequences, FiniteSets, TLC

VARIABLES
    \* processTest, called on its own
    test,            \* the test object handed to processTest: [specTitle, results]
    testResult,      \* what processTest returned: <<>> (null) or <<record>>
    \* analyzeTestResults
    testMap,         \* testMap: test name -> <<>> (absent) or <<[status, isFlaky]>>
    fed,             \* the test entries handled so far: [name, status, isFlaky, path]
    phase,           \* "folding" while the forEach loops run, "done" after the summary
    summary,         \* summary counters, filled at the end
    \* MCP.ground
    thresholdOpt,    \* options.scoreThreshold as passed to the constructor
    scoreThreshold,  \* this.scoreThreshold
    target,          \* the Target handed to ground(): <<>> or <<target>>
    groundResult,    \* the outcome of the last ground() call: <<>> or <<outcome>>
    lastCandidates,  \* the candidates that ground() call generated
    locatorCount,    \* how many elements the returned locator matches: <<>> or <<n>>
    stableSelectors, \* what generateStableSelectors returned: <<>> or <<list>>
    \* MCP.validate / safeClick / safeFill
    autoHealOpt,     \* options.enableAutoHeal as passed to the constructor
    enableAutoHeal,  \* this.enableAutoHeal
    page,            \* what the locator matches now: [count, visible, enabled]
    pc,              \* where the safeClick / safeFill call stands: "idle", "validate",
                     \* "interact", "healWait", "healInteract", "done"
    action,          \* "click" or "fill": which guard is running
    trace,           \* the calls made on the locator by the running guard, in order
    firstError,      \* the error caught by safeClick / safeFill: <<>> or <<error>>
    outcome,         \* how the guard call ended: <<>> or <<[ended, error]>>
    validated,       \* the last validate run: <<>> or <<[page, result]>>
    locator,         \* the locator handed to safeClick / safeFill, by its strategy
    healedOn,        \* the locator the auto-heal acted on: <<>> or <<locator>>
    \* SelectorUtils.findBestSelector
    selectorList,    \* the selectors handed in, each with what the page holds for it
    scored,          \* what scoreSelectors returned: <<>> or <<list>>
    best,            \* how findBestSelector ended: <<>> or <<outcome>>
    \* the reducer run again over the same records
    runs,            \* the processTest results of the successive runs, in order
    \* calculateSelectorScore
    scoreInput,      \* the test whose score is computed: [title, attempts, status, isFlaky]
    mcpReport,       \* flakiness-report.json: <<>> (no file) or <<tests>>
    selectorScore,   \* the report generator's score: <<>> or <<[num, den]>>
    analyzerScore,   \* FlakinessAnalyzer's score: <<>> or <<[num, den]>>
    \* analyzeTestResults: the execution map
    executionMap,    \* the keys of executionMap
    recordsSeen,     \* the number of result records of the entries handled so far
    totalExecutions, \* summary.totalExecutions: <<>> before the summary, then <<n>>
    \* one MCP instance shared by the tests of a worker
    plan,            \* this.plan
    selectorCache,   \* this.selectorCache: the set of its entries
    failureSignatures, \* this.failureSignatures: the set of its entries
    returned,        \* per test, what its last call on the MCP returned or threw
    \* the web test server
    currentExecution, \* the currentExecution object: [isRunning, progress, startTime, endTime]
    children,        \* the spawned Playwright processes that are alive, by run number
    accepted,        \* the number of runs POST /api/execute-tests has accepted
    settled,         \* per run, <<>> or <<how the server recorded the end of the run>>
    lastBroadcast,   \* the type of the last message broadcast: <<>> or <<type>>
    lastResponse,    \* the status of the last HTTP response: <<>> or <<status>>
    \* SelectorUtils.clickStable / fillStable
    retriesOpt,      \* options.retries: <<>> or <<n>>
    stableAction,    \* "click" for clickStable, "fill" for fillStable
    stableAttempt,   \* the loop variable attempt
    stablePc,        \* where the call stands: "loop", "wait", "done"
    attempts,        \* the attempts made so far, each by how its try block ended
    stableOutcome,   \* how the call ended: <<>> or <<outcome>>
    \* WaitUtils.waitForNetworkIdle
    networkOptions,  \* [timeout, idleTime, maxRequests], times in polling periods
    inFlight,        \* the requests in flight on the page
    pendingRequests, \* the counter of the listeners
    now,             \* Date.now(), in polling periods since the call
    lastRequestTime, \* lastRequestTime
    nextPoll,        \* when the page.waitForTimeout(100) of the loop is over
    netPc            \* "waiting", "returned" or "timedOut"

reducerVars == <<test, testResult, testMap, fed, phase, summary>>
groundVars  == <<thresholdOpt, scoreThreshold, target, groundResult, lastCandidates,
                 locatorCount, stableSelectors>>
guardVars   == <<autoHealOpt, enableAutoHeal, page, pc, action, trace, firstError,
                 outcome, validated, locator, healedOn>>
selectorVars == <<selectorList, scored, best>>
rerunVars   == <<runs>>
scoreVars   == <<scoreInput, mcpReport, selectorScore, analyzerScore>>
executionVars == <<executionMap, recordsSeen, totalExecutions>>
sharedVars  == <<plan, selectorCache, failureSignatures, returned>>
serverVars  == <<currentExecution, children, accepted, settled, lastBroadcast, lastResponse>>
stableVars  == <<retriesOpt, stableAction, stableAttempt, stablePc, attempts, stableOutcome>>
networkVars == <<networkOptions, inFlight, pendingRequests, now, lastRequestTime, nextPoll,
                 netPc>>
newVars     == <<sharedVars, serverVars, stableVars, networkVars>>
restVars    == <<executionVars, newVars>>
earlierVars == <<reducerVars, groundVars, guardVars, selectorVars, rerunVars, scoreVars,
                 executionVars>>
laterVars   == <<selectorVars, rerunVars, scoreVars, restVars>>
vars == <<reducerVars, groundVars, guardVars, laterVars>>

Null == <<>>
Some(v) == <<v>>

-----------------------------------------------------------------------------
(* Bounds of the model                                                     *)

\* the longest attempt sequence (test.results) of one test entry
MaxAttempts == 3
\* the longest attempt sequence of a test entry in an analyzeTestResults run
MaxEntryAttempts == 2
\* the number of test entries one analyzeTestResults run handles
MaxEntries == 3
\* the largest number of elements a locator matches
MaxMatches == 2

\* result.status values: Playwright's own, the aliases processTest accepts,
\* the flaky marker, and one value processTest has no branch for
Statuses == {"passed", "failed", "flaky", "expected", "unexpected", "timedOut"}

\* the result.status values of the records of an analyzeTestResults run: the
\* aliases are left to processTest on its own, which reads them as passed / failed
EntryStatuses == Statuses \ {"expected", "unexpected"}

\* spec titles, the key of testMap
TestNames == {"login", "search"}

RECURSIVE SeqsUpTo(_, _)
SeqsUpTo(S, n) ==
    IF n = 0 THEN {<<>>}
    ELSE LET shorter == SeqsUpTo(S, n - 1)
         IN  shorter \cup {Append(s, x) : s \in {t \in shorter : Len(t) = n - 1}, x \in S}

-----------------------------------------------------------------------------
(* processTest                                                             *)

hasFlakyStatus(results) == \E i \in 1..Len(results) : results[i] = "flaky"

\* the mutant of finalStatus: the retry branch looks at the last record only
finalStatus_lastOnly(results) ==
    LET lastStatus == results[Len(results)]
    IN  IF hasFlakyStatus(results) THEN "flaky"
        ELSE IF lastStatus \in {"passed", "expected"} THEN "passed"
        ELSE IF lastStatus \in {"failed", "unexpected"} THEN "failed"
        ELSE lastStatus

\* the mutant of finalStatus: the flaky marker is looked for in the last record only
finalStatus_markerLast(results) ==
    LET firstStatus == results[1]
        lastStatus  == results[Len(results)]
        retries     == Len(results) - 1
    IN  IF lastStatus = "flaky" THEN "flaky"
        ELSE IF retries > 0 /\ firstStatus = "failed" /\ lastStatus = "passed" THEN "flaky"
        ELSE IF retries > 0 /\ firstStatus = "failed" /\ lastStatus = "failed" THEN "failed"
        ELSE IF lastStatus \in {"passed", "expected"} THEN "passed"
        ELSE IF lastStatus \in {"failed", "unexpected"} THEN "failed"
        ELSE lastStatus

\* finalStatus as processTest computes it, for a non-empty results array
finalStatus(results) ==
    LET firstStatus == results[1]
        lastStatus  == results[Len(results)]
        retries     == Len(results) - 1
    IN  IF hasFlakyStatus(results) THEN "flaky"
        ELSE IF retries > 0
        THEN IF firstStatus = "failed" /\ lastStatus = "passed" THEN "flaky"
             ELSE IF firstStatus = "failed" /\ lastStatus = "failed" THEN "failed"
             ELSE IF lastStatus = "passed" \/ lastStatus = "expected" THEN "passed"
             ELSE IF lastStatus = "failed" \/ lastStatus = "unexpected" THEN "failed"
             ELSE lastStatus
        ELSE IF lastStatus = "passed" \/ lastStatus = "expected" THEN "passed"
             ELSE IF lastStatus = "failed" \/ lastStatus = "unexpected" THEN "failed"
             ELSE lastStatus

\* isFlaky as processTest computes it, for a non-empty results array
isFlaky(results) ==
    LET firstStatus == results[1]
        lastStatus  == results[Len(results)]
        retries     == Len(results) - 1
    IN  IF hasFlakyStatus(results) THEN TRUE
        ELSE retries > 0 /\ firstStatus = "failed" /\ lastStatus = "passed"

processTest(t) ==
    IF Len(t.results) = 0 THEN Null
    ELSE Some([name     |-> t.specTitle,
               status   |-> finalStatus(t.results),
               isFlaky  |-> isFlaky(t.results),
               retries  |-> Len(t.results) - 1])

-----------------------------------------------------------------------------
(* analyzeTestResults: the merge of one processed test into testMap        *)

\* the status left in testMap when a nested-suite entry meets an existing one
mergeNested(existing, new) ==
    IF new = "flaky" \/ existing = "flaky" THEN "flaky"
    ELSE IF new = "failed" \/ existing = "failed" THEN "failed"
    ELSE IF new = "passed" /\ existing = "passed" THEN "passed"
    ELSE existing

\* the status left in testMap when a direct-spec entry meets an existing one
mergeDirect(existing, new) ==
    IF new = "failed" THEN "failed"
    ELSE IF new = "flaky" /\ existing # "failed" THEN "flaky"
    ELSE existing

merge(path, existing, new) ==
    IF path = "nested" THEN mergeNested(existing, new) ELSE mergeDirect(existing, new)

\* testMap after one test entry whose processTest result is r
consolidate(map, path, r) ==
    IF map[r.name] = Null
    THEN [map EXCEPT ![r.name] = Some([status |-> r.status, isFlaky |-> r.isFlaky])]
    ELSE [map EXCEPT ![r.name] =
             Some([status  |-> merge(path, map[r.name][1].status, r.status),
                   isFlaky |-> map[r.name][1].isFlaky])]

\* testMap after the entries i..Len(entries) of a report are handled in that order,
\* each entry being the processTest result of one test with the path of its suite
RECURSIVE analyzeFrom(_, _, _)
analyzeFrom(map, entries, i) ==
    IF i > Len(entries) THEN map
    ELSE analyzeFrom(consolidate(map, entries[i].path, entries[i]), entries, i + 1)

\* the summary counters over the consolidated tests
summarize(map) ==
    LET present == {n \in TestNames : map[n] # Null}
        count(s) == Cardinality({n \in present : map[n][1].status = s})
    IN  [uniqueTests |-> Cardinality(present),
         totalTests  |-> Cardinality(present),
         passed      |-> count("passed"),
         failed      |-> count("failed"),
         flaky       |-> count("flaky")]

\* the keys executionMap.set is called with for the records of one test:
\* `${test.specTitle}-${test.name}-${result.status}-${index}`; test.name is not
\* a field of a test of the JSON report, so it is the same in every key
executionKeys(specTitle, results) ==
    {<<specTitle, "undefined", results[i], i - 1>> : i \in 1..Len(results)}

NoSummary == [uniqueTests |-> 0, totalTests |-> 0, passed |-> 0, failed |-> 0, flaky |-> 0]

-----------------------------------------------------------------------------
(* MCP: constructor, generateSelectorCandidates, ground                    *)

\* the a-priori score of each strategy, in hundredths
RoleScore == 95
LabelScore == 90
PlaceholderScore == 85
TestIdScore == 80
FallbackScore == 70
StructuralScore == 50
DefaultScoreThreshold == 80

\* a hint of a Target: undefined, the empty string, or a text
HintValues == {Null, Some(""), Some("Sign in")}

\* JavaScript truthiness of an optional string
Truthy(h) == h # Null /\ h[1] # ""

Targets ==
    [role : HintValues, name : HintValues, label : HintValues,
     placeholder : HintValues, testId : HintValues, fallback : HintValues]

\* options.scoreThreshold: left out, or a number in hundredths
ThresholdOptions == {Null, Some(0), Some(50), Some(75), Some(80), Some(90), Some(100)}

\* this.scoreThreshold = options.scoreThreshold || 0.8
scoreThresholdOf(opt) ==
    IF opt = Null \/ opt[1] = 0 THEN DefaultScoreThreshold ELSE opt[1]

generateStructuralSelector(t) ==
    IF Truthy(t.role)
    THEN Some([role |-> t.role[1],
               text |-> IF Truthy(t.name) THEN t.name[1]
                        ELSE IF Truthy(t.label) THEN t.label[1] ELSE ""])
    ELSE Null

\* candidates.push(...) under its if
pushIf(cond, method, score) ==
    IF cond THEN <<[method |-> method, score |-> score]>> ELSE <<>>

\* the mutant of pushedCandidates: the role candidate is pushed for a role
\* without accessible name too
pushedCandidates_roleAlone(t) ==
       pushIf(Truthy(t.role), "getByRole", RoleScore)
    \o pushIf(Truthy(t.label), "getByLabel", LabelScore)
    \o pushIf(Truthy(t.placeholder), "getByPlaceholder", PlaceholderScore)
    \o pushIf(Truthy(t.testId), "data-testid", TestIdScore)
    \o pushIf(Truthy(t.fallback), "scoped-css", FallbackScore)
    \o pushIf(generateStructuralSelector(t) # Null, "structural-css", StructuralScore)

\* the candidates in the order generateSelectorCandidates pushes them
pushedCandidates(t) ==
       pushIf(Truthy(t.role) /\ Truthy(t.name), "getByRole", RoleScore)
    \o pushIf(Truthy(t.label), "getByLabel", LabelScore)
    \o pushIf(Truthy(t.placeholder), "getByPlaceholder", PlaceholderScore)
    \o pushIf(Truthy(t.testId), "data-testid", TestIdScore)
    \o pushIf(Truthy(t.fallback), "scoped-css", FallbackScore)
    \o pushIf(generateStructuralSelector(t) # Null, "structural-css", StructuralScore)

\* c put into a list sorted by descending score, behind the entries that do not
\* score lower (Array.prototype.sort is stable)
insertByScore(sorted, c) ==
    LET k == Cardinality({i \in 1..Len(sorted) : sorted[i].score >= c.score})
    IN  SubSeq(sorted, 1, k) \o <<c>> \o SubSeq(sorted, k + 1, Len(sorted))

\* the mutant of sortByScore: the comparator is a.score - b.score
RECURSIVE sortByScore_ascending(_)
sortByScore_ascending(cs) ==
    IF cs = <<>> THEN <<>>
    ELSE LET rest == sortByScore_ascending(SubSeq(cs, 1, Len(cs) - 1))
             c    == cs[Len(cs)]
             k    == Cardinality({i \in 1..Len(rest) : rest[i].score <= c.score})
         IN  SubSeq(rest, 1, k) \o <<c>> \o SubSeq(rest, k + 1, Len(rest))

\* candidates.sort((a, b) => b.score - a.score)
RECURSIVE sortByScore(_)
sortByScore(cs) ==
    IF cs = <<>> THEN <<>>
    ELSE insertByScore(sortByScore(SubSeq(cs, 1, Len(cs) - 1)), cs[Len(cs)])

generateSelectorCandidates(t) == sortByScore(pushedCandidates(t))

\* the selectors SelectorUtils.generateStableSelectors pushes for an element
\* (a Target without fallback), each named by the strategy it uses
generateStableSelectors(element) ==
       (IF Truthy(element.role) /\ Truthy(element.name) THEN <<"getByRole">> ELSE <<>>)
    \o (IF Truthy(element.label) THEN <<"getByLabel">> ELSE <<>>)
    \o (IF Truthy(element.placeholder) THEN <<"getByPlaceholder">> ELSE <<>>)
    \o (IF Truthy(element.testId) THEN <<"data-testid">> ELSE <<>>)
    \o (IF Truthy(element.role) THEN <<"structural-css">> ELSE <<>>)

\* the mutant of ground: with no candidate at the threshold, the top candidate
\* is returned instead of the error
ground_bestEffort(threshold, t) ==
    LET candidates == generateSelectorCandidates(t)
        meeting    == {i \in 1..Len(candidates) : candidates[i].score >= threshold}
        found      == IF meeting = {} THEN 1
                      ELSE CHOOSE i \in meeting : \A j \in meeting : i <= j
    IN  IF candidates = <<>>
        THEN [kind |-> "error", threshold |-> threshold, best |-> 0]
        ELSE [kind   |-> "locator",
              method |-> candidates[found].method,
              score  |-> candidates[found].score]

\* ground(page, target): the first sorted candidate at or above the threshold,
\* or the error with the threshold and `candidates[0]?.score || 0`
ground(threshold, t) ==
    LET candidates == generateSelectorCandidates(t)
        meeting    == {i \in 1..Len(candidates) : candidates[i].score >= threshold}
    IN  IF meeting = {}
        THEN [kind      |-> "error",
              threshold |-> threshold,
              best      |-> IF candidates # <<>> THEN candidates[1].score ELSE 0]
        ELSE LET found == CHOOSE i \in meeting : \A j \in meeting : i <= j
             IN  [kind   |-> "locator",
                  method |-> candidates[found].method,
                  score  |-> candidates[found].score]

-----------------------------------------------------------------------------
(* MCP: validate and the errors of the guarded actions                     *)

\* what a locator can match: no element, or count elements of which the one
\* acted on is visible or hidden, enabled or disabled
Pages ==
    {pg \in [count : 0..MaxMatches, visible : BOOLEAN, enabled : BOOLEAN] :
        pg.count = 0 => (~pg.visible /\ ~pg.enabled)}

\* the locators a test hands to safeClick / safeFill: the ones ground returns,
\* each named by the strategy of its candidate
Locators == {"getByRole", "getByLabel", "data-testid", "scoped-css"}

\* an error object: the call that threw it, the attempt of the guard it was
\* thrown in (1 the try block, 2 the auto-heal), and its message
ErrorOf(thrower, attempt, message) ==
    [thrower |-> thrower, attempt |-> attempt, message |-> message]

\* new Error(`Selector matches ${count} elements, expected exactly 1`)
countError(count) ==
    ErrorOf("validate", 1,
            "Selector matches " \o ToString(count) \o " elements, expected exactly 1")

toBeVisibleError == ErrorOf("expect.toBeVisible", 1, "expected locator to be visible")

toBeEnabledError == ErrorOf("expect.toBeEnabled", 1, "expected locator to be enabled")

\* the mutant of validate: only an ambiguous locator fails the uniqueness check
validate_moreThanOne(pg) ==
    IF pg.count > 1 THEN Some(countError(pg.count))
    ELSE IF ~pg.visible THEN Some(toBeVisibleError)
    ELSE IF ~pg.enabled THEN Some(toBeEnabledError)
    ELSE Null

\* validate(locator) on the page as it is: the error thrown, or Null when it returns.
\* The page is taken as it stands for the whole run of validate; it changes
\* between the calls a guard makes, not inside one.
validate(pg) ==
    IF pg.count # 1 THEN Some(countError(pg.count))
    ELSE IF ~pg.visible THEN Some(toBeVisibleError)
    ELSE IF ~pg.enabled THEN Some(toBeEnabledError)
    ELSE Null

\* locator.click() / locator.fill() can succeed only on one visible, enabled element
actionable(pg) == pg.count = 1 /\ pg.visible /\ pg.enabled

\* locator.waitFor({ state: 'visible', timeout: 5000 }) returns when the one
\* element is visible and throws at the timeout otherwise
waitForVisible(pg) == pg.count = 1 /\ pg.visible

interactionError(act, attempt) == ErrorOf("locator." \o act, attempt, act \o " timed out")

waitForError == ErrorOf("locator.waitFor", 2, "waitFor timed out after 5000ms")

\* the mutant of enableAutoHealOf: a supplied option is honoured
enableAutoHealOf_honoured(opt) == IF opt = Null THEN TRUE ELSE opt[1]

\* this.enableAutoHeal = options.enableAutoHeal || true
enableAutoHealOf(opt) == IF opt # Null /\ opt[1] THEN opt[1] ELSE TRUE

-----------------------------------------------------------------------------
(* SelectorUtils: scoreSelectors, findBestSelector                         *)

\* the longest selector list handed to findBestSelector
MaxSelectors == 2

\* selector strings: a plain one and two that contain a semantic marker
SelectorTexts ==
    {"[data-testid=\"submit\"]", "[data-testid=\"getByLabel-email\"]", "text=getByRole"}

\* selector.includes('getByRole') || selector.includes('getByLabel')
mentionsSemantic(selector) ==
    selector \in {"[data-testid=\"getByLabel-email\"]", "text=getByRole"}

\* what the page holds for one selector: Null when locator.count() throws
PageOutcomes == {Null} \cup {Some(pg) : pg \in Pages}

SelectorInputs == [selector : SelectorTexts, pg : PageOutcomes]

NoMatchScore == 0
MultipleScore == 30
PerfectScore == 100
HiddenPenalty == 30
DisabledPenalty == 20
SemanticBonus == 10
WorkingScore == 50

Max(a, b) == IF a >= b THEN a ELSE b

\* the entry scoreSelectors pushes for one selector
scoreSelector(s) ==
    IF s.pg = Null
    THEN [selector |-> s.selector, score |-> NoMatchScore, method |-> "error"]
    ELSE IF s.pg[1].count = 0
    THEN [selector |-> s.selector, score |-> NoMatchScore, method |-> "not-found"]
    ELSE IF s.pg[1].count > 1
    THEN [selector |-> s.selector, score |-> MultipleScore, method |-> "multiple-elements"]
    ELSE LET afterVisible == IF ~s.pg[1].visible THEN PerfectScore - HiddenPenalty
                             ELSE PerfectScore
             afterEnabled == IF ~s.pg[1].enabled THEN afterVisible - DisabledPenalty
                             ELSE afterVisible
             afterBonus   == IF mentionsSemantic(s.selector) THEN afterEnabled + SemanticBonus
                             ELSE afterEnabled
             method       == IF mentionsSemantic(s.selector) THEN "semantic"
                             ELSE IF ~s.pg[1].enabled THEN "not-enabled"
                             ELSE IF ~s.pg[1].visible THEN "not-visible"
                             ELSE "excellent"
         IN  [selector |-> s.selector, score |-> Max(0, afterBonus), method |-> method]

\* scoreSelectors(page, selectors): one entry per selector, sorted highest first
scoreSelectors(selectors) ==
    sortByScore([i \in 1..Len(selectors) |-> scoreSelector(selectors[i])])

\* findBestSelector: the first entry scoring above 0.5, or the error
findBestSelector(selectors) ==
    LET scoredSelectors == scoreSelectors(selectors)
        working == {i \in 1..Len(scoredSelectors) : scoredSelectors[i].score > WorkingScore}
    IN  IF working = {}
        THEN [kind |-> "error",
              message |-> "No working selectors found. All selectors scored below 0.5"]
        ELSE LET bestSelector == CHOOSE i \in working : \A j \in working : i <= j
             IN  [kind     |-> "locator",
                  selector |-> scoredSelectors[bestSelector].selector,
                  score    |-> scoredSelectors[bestSelector].score]

-----------------------------------------------------------------------------
(* processTest run again: the id of a result                               *)

\* how often the reducer is run over the same records
MaxRuns == 2

\* generateRandomTestId(): six characters drawn with Math.random() from
\* A-Z0-9; three of the 36^6 strings stand for all of them
generateRandomTestId == {"AAAAAA", "K3Q9ZD", "999999"}

\* the object processTest returns with the id it was given, or Null for a
\* test without results
withId(r, id) == IF r = Null THEN Null ELSE Some([id |-> id, result |-> r[1]])

-----------------------------------------------------------------------------
(* calculateSelectorScore of generate-flakiness-report and FlakinessAnalyzer *)
(* Selector scores are in hundredths of a point (10 points is 1000) and a   *)
(* score that is an average is the fraction num / den.                      *)

\* the largest test.results.length of a scored test
MaxScoreAttempts == 6
\* the most entries of flakiness-report.json
MaxReportEntries == 2

FullScore == 1000
FailedPenalty == 300
FlakyPenalty == 200
RetryPenalty == 100
AnalyzerRetryPenalty == 150
ComplexPenalty == 100

\* test titles: none, a plain one, one that names the search page
ScoreTitles == {Null, Some("login works"), Some("search finds the cart")}

\* title.toLowerCase().includes('search') || title.toLowerCase().includes('cart')
mentionsComplex(title) == title = "search finds the cart"

\* the selectorScores of one entry of the MCP report: the scores of the
\* grounding logs of one test end, a score being any non-negative decimal
ScoreSamples == {<<>>, <<95>>, <<50, 95>>, <<1200>>}

ReportEntries == [title : {"login works", "search finds the cart"}, selectorScores : ScoreSamples]

ScoreInputs ==
    [title : ScoreTitles, attempts : 1..MaxScoreAttempts,
     status : {"passed", "failed"}, isFlaky : BOOLEAN]

RECURSIVE sumScores(_)
sumScores(scores) ==
    IF scores = <<>> THEN 0 ELSE scores[1] + sumScores(Tail(scores))

\* Math.round(score * 10) / 10 on hundredths; Math.round rounds a half up
roundToTenth(h) == ((h + 5) \div 10) * 10

\* the deductions of generate-flakiness-report's fallback, before the clamp
heuristicDeductions(t) ==
    LET afterFailed == IF t.status = "failed" THEN FullScore - FailedPenalty ELSE FullScore
        afterFlaky  == IF t.isFlaky THEN afterFailed - FlakyPenalty ELSE afterFailed
        afterRetry  == IF t.attempts > 1 THEN afterFlaky - (t.attempts - 1) * RetryPenalty
                       ELSE afterFlaky
    IN  IF Truthy(t.title) /\ mentionsComplex(t.title[1]) THEN afterRetry - ComplexPenalty
        ELSE afterRetry

\* the mutant of heuristicScore: the result is rounded but not clamped at 0
heuristicScore_unclamped(t) == roundToTenth(heuristicDeductions(t))

\* the fallback of calculateSelectorScore: Math.max(0, Math.round(score * 10) / 10)
heuristicScore(t) == Max(0, roundToTenth(heuristicDeductions(t)))

\* mcpReport.tests.find(t => t.title === test.title): the first entry of the title
findEntry(tests, title) ==
    LET matching == {i \in 1..Len(tests) : title # Null /\ tests[i].title = title[1]}
    IN  IF matching = {} THEN Null
        ELSE Some(tests[CHOOSE i \in matching : \A j \in matching : i <= j])

\* Math.max(0, Math.min(10, avgScore)) for avgScore = sum / n
clampAverage(sum, n) ==
    IF sum > FullScore * n THEN [num |-> FullScore, den |-> 1]
    ELSE IF sum < 0 THEN [num |-> 0, den |-> 1]
    ELSE [num |-> sum, den |-> n]

\* calculateSelectorScore(test, result, isFlaky) of generate-flakiness-report
calculateSelectorScore(t, report) ==
    LET mcpTest == IF report = Null THEN Null ELSE findEntry(report[1], t.title)
    IN  IF mcpTest # Null /\ Len(mcpTest[1].selectorScores) > 0
        THEN clampAverage(sumScores(mcpTest[1].selectorScores), Len(mcpTest[1].selectorScores))
        ELSE [num |-> heuristicScore(t), den |-> 1]

\* FlakinessAnalyzer.calculateSelectorScore(test, result); test.title.toLowerCase()
\* throws a TypeError for a test without title
analyzerSelectorScore(t) ==
    LET afterFailed == IF t.status = "failed" THEN FullScore - FailedPenalty ELSE FullScore
        afterRetry  == IF t.attempts > 1
                       THEN afterFailed - (t.attempts - 1) * AnalyzerRetryPenalty
                       ELSE afterFailed
        afterTitle  == IF mentionsComplex(t.title[1]) THEN afterRetry - ComplexPenalty
                       ELSE afterRetry
    IN  IF t.title = Null THEN [kind |-> "TypeError"]
        ELSE [kind |-> "score", num |-> Max(0, roundToTenth(afterTitle)), den |-> 1]

-----------------------------------------------------------------------------
(* One MCP instance shared by several tests                                *)

\* the tests that hold the mcp fixture
Tests == {"t1", "t2"}

\* a step of the plan with one target
StepOf(id, t) == [id |-> id, targets |-> <<t>>]

\* the Target hints of the plans: a button with role and name, a field with a
\* placeholder only
ButtonTarget ==
    [role |-> Some("button"), name |-> Some("Sign in"), label |-> Null,
     placeholder |-> Null, testId |-> Null, fallback |-> Null]

FieldTarget ==
    [role |-> Null, name |-> Null, label |-> Null,
     placeholder |-> Some("Search"), testId |-> Null, fallback |-> Null]

FallbackTarget ==
    [role |-> Null, name |-> Null, label |-> Null,
     placeholder |-> Null, testId |-> Null, fallback |-> Some("Sign in")]

\* the Targets the tests ground
SharedTargets == {ButtonTarget, FieldTarget, FallbackTarget}

NoPlan == [steps |-> <<>>]

\* the plans an MCP is built with
Plans ==
    {NoPlan,
     [steps |-> <<StepOf("login", ButtonTarget)>>],
     [steps |-> <<StepOf("login", ButtonTarget), StepOf("search", FieldTarget)>>]}

StepIds == {"login", "search"}

\* getStep(stepId): this.plan.steps.find(step => step.id === stepId)
getStep(p, stepId) ==
    LET found == {i \in 1..Len(p.steps) : p.steps[i].id = stepId}
    IN  IF found = {} THEN Null
        ELSE Some(p.steps[CHOOSE i \in found : \A j \in found : i <= j])

\* the mutant of cacheAfterGround: ground keeps the candidates of the target
cacheAfterGround_persisting(cache, t) ==
    cache \cup {[target |-> t, candidates |-> generateSelectorCandidates(t)]}

\* this.selectorCache after ground(page, target): ground builds its candidates
\* in a local array and writes no field
cacheAfterGround(cache, t) == cache

\* waitFor(page, target): ground, then expect(locator).toBeVisible()
waitFor(threshold, t, pg) ==
    LET grounded == ground(threshold, t)
    IN  IF grounded.kind = "error" THEN grounded
        ELSE IF pg.count = 1 /\ pg.visible THEN grounded
        ELSE [kind |-> "error", threshold |-> threshold, best |-> grounded.score]

\* safeClick / safeFill on a page that stays as it is during the call: the
\* validation, the interaction, and the wait and the retry of the auto-heal
safeInteraction(pg, firstWorks, retryWorks) ==
    IF validate(pg) = Null /\ firstWorks THEN "returned"
    ELSE IF waitForVisible(pg) /\ actionable(pg) /\ retryWorks THEN "returned"
    ELSE "raised"

-----------------------------------------------------------------------------
(* The web test server: currentExecution and the spawned processes         *)

\* the number of runs the server accepts
MaxExecutions == 3

Runs == 1..MaxExecutions

\* the value of `new Date()`
Date == Some("Date")

\* currentExecution as the module is loaded
IdleExecution == [isRunning |-> FALSE, progress |-> 0, startTime |-> Null, endTime |-> Null]

\* currentExecution as POST /api/execute-tests assigns it
NewExecution == [isRunning |-> TRUE, progress |-> 0, startTime |-> Date, endTime |-> Null]

CommandProgress == 25
FullProgress == 100

\* executeTestsInBackground up to the spawn of the process
launched(exec) == [exec EXCEPT !.progress = CommandProgress]

\* the mutant of failedExecution: the catch block leaves isRunning as it is
failedExecution_stillRunning(exec) ==
    [exec EXCEPT !.progress = 0, !.endTime = Date]

\* the catch block of executeTestsInBackground
failedExecution(exec) ==
    [exec EXCEPT !.isRunning = FALSE, !.progress = 0, !.endTime = Date]

\* executeTestsInBackground after the process closed with code 0
completedExecution(exec) ==
    [exec EXCEPT !.progress = FullProgress, !.endTime = Date, !.isRunning = FALSE]

\* POST /api/stop-execution on a running execution
stoppedExecution(exec) == [exec EXCEPT !.isRunning = FALSE, !.endTime = Date]

\* what the server holds right after it handled the end of a run
Settlement(how, exec, message) == [how |-> how, execution |-> exec, message |-> message]

-----------------------------------------------------------------------------
(* SelectorUtils.clickStable / fillStable                                  *)

\* the largest options.retries of a call
MaxRetries == 2

\* DEFAULT_RETRIES
DefaultRetries == 2

\* options.retries as a test can hand it in: absent, or a number, -1 included
RetryOptions == {Null} \cup {Some(n) : n \in -1..MaxRetries}

\* const { retries = this.DEFAULT_RETRIES } = options
retriesOf(opt) == IF opt = Null THEN DefaultRetries ELSE opt[1]

\* how the try block of one attempt ends: the call that threw, or "ok" when the
\* click / fill was done
TryOutcomes == {"findBestSelector", "waitForElementState", "interaction", "ok"}

\* new Error(`Failed to click after ${retries + 1} attempts. ...`)
stableError(act, retries) == [failedTo |-> act, after |-> retries + 1]

-----------------------------------------------------------------------------
(* WaitUtils.waitForNetworkIdle; times are counted in polling periods, the *)
(* 100 ms of the page.waitForTimeout of its loop                           *)

\* the largest options.timeout and options.idleTime of a call
MaxTimeout == 3
MaxIdleTime == 2
\* the most requests in flight on the page at once
MaxInFlight == 2

\* options.maxRequests: the default 0, or 1
MaxRequestsOptions == {0, 1}

NetworkOptions ==
    [timeout : 1..MaxTimeout, idleTime : 0..MaxIdleTime, maxRequests : MaxRequestsOptions]

\* the condition under which the loop returns
networkIdle(options, pending, sinceLastRequest) ==
    pending <= options.maxRequests /\ sinceLastRequest >= options.idleTime

-----------------------------------------------------------------------------
(* The parts of the state a specification does not use stay at these values *)

ReducerIdle ==
    /\ test = [specTitle |-> "login", results |-> <<>>]
    /\ testResult = [called |-> FALSE, value |-> Null]
    /\ testMap = [n \in TestNames |-> Null]
    /\ fed = <<>>
    /\ phase = "folding"
    /\ summary = NoSummary

GroundIdle ==
    /\ thresholdOpt = Null
    /\ scoreThreshold = DefaultScoreThreshold
    /\ target = Null
    /\ groundResult = Null
    /\ lastCandidates = <<>>
    /\ locatorCount = Null
    /\ stableSelectors = Null

GuardIdle ==
    /\ autoHealOpt = Null
    /\ enableAutoHeal = TRUE
    /\ page = [count |-> 1, visible |-> TRUE, enabled |-> TRUE]
    /\ pc = "idle"
    /\ locator = "getByRole"
    /\ healedOn = Null
    /\ action = "click"
    /\ trace = <<>>
    /\ firstError = Null
    /\ outcome = Null
    /\ validated = Null

SelectorsIdle ==
    /\ selectorList = <<>>
    /\ scored = Null
    /\ best = Null

RerunIdle == runs = <<>>

ExecutionIdle ==
    /\ executionMap = {}
    /\ recordsSeen = 0
    /\ totalExecutions = Null

SharedIdle ==
    /\ plan = NoPlan
    /\ selectorCache = {}
    /\ failureSignatures = {}
    /\ returned = [t \in Tests |-> Null]

ServerIdle ==
    /\ currentExecution = IdleExecution
    /\ children = {}
    /\ accepted = 0
    /\ settled = [r \in Runs |-> Null]
    /\ lastBroadcast = Null
    /\ lastResponse = Null

StableIdle ==
    /\ retriesOpt = Null
    /\ stableAction = "click"
    /\ stableAttempt = 0
    /\ stablePc = "loop"
    /\ attempts = <<>>
    /\ stableOutcome = Null

NetworkIdle ==
    /\ networkOptions = [timeout |-> 1, idleTime |-> 0, maxRequests |-> 0]
    /\ inFlight = 0
    /\ pendingRequests = 0
    /\ now = 0
    /\ lastRequestTime = 0
    /\ nextPoll = 0
    /\ netPc = "waiting"

RestIdle == ExecutionIdle /\ SharedIdle /\ ServerIdle /\ StableIdle /\ NetworkIdle

ScoreIdle ==
    /\ scoreInput = [title |-> Null, attempts |-> 1, status |-> "passed", isFlaky |-> FALSE]
    /\ mcpReport = Null
    /\ selectorScore = Null
    /\ analyzerScore = Null

EarlierIdle ==
    /\ ReducerIdle
    /\ GroundIdle
    /\ GuardIdle
    /\ SelectorsIdle
    /\ RerunIdle
    /\ ScoreIdle
    /\ ExecutionIdle

-----------------------------------------------------------------------------
(* processTest as a function of one test object                            *)

InitProcessTest ==
    /\ test \in [specTitle : TestNames, results : SeqsUpTo(Statuses, MaxAttempts)]
    /\ testResult = [called |-> FALSE, value |-> Null]
    /\ testMap = [n \in TestNames |-> Null]
    /\ fed = <<>>
    /\ phase = "folding"
    /\ summary = NoSummary
    /\ GroundIdle
    /\ GuardIdle
    /\ SelectorsIdle
    /\ RerunIdle
    /\ ScoreIdle
    /\ RestIdle

CallProcessTest ==
    /\ ~testResult.called
    /\ testResult' = [called |-> TRUE, value |-> processTest(test)]
    /\ UNCHANGED <<test, testMap, fed, phase, summary, groundVars, guardVars, laterVars>>

NextProcessTest == CallProcessTest

SpecProcessTest == InitProcessTest /\ [][NextProcessTest]_vars

-----------------------------------------------------------------------------
(* analyzeTestResults: one step per test entry of the report, then the     *)
(* summary. A report holds nested suites and suites with direct specs, so  *)
(* entries of both kinds meet in one testMap.                              *)

InitAnalyze ==
    /\ ReducerIdle
    /\ GroundIdle
    /\ GuardIdle
    /\ SelectorsIdle
    /\ RerunIdle
    /\ ScoreIdle
    /\ RestIdle

\* spec.tests.forEach body for one test of a spec (nested suite or direct spec)
HandleTest(path, name, results) ==
    /\ phase = "folding"
    /\ Len(fed) < MaxEntries
    /\ LET r == processTest([specTitle |-> name, results |-> results])
       IN  IF r = Null
           THEN UNCHANGED <<testMap, fed>>
           ELSE /\ testMap' = consolidate(testMap, path, r[1])
                /\ fed' = Append(fed, [name |-> name, status |-> r[1].status,
                                        isFlaky |-> r[1].isFlaky, path |-> path])
    /\ executionMap' = executionMap \cup executionKeys(name, results)
    /\ recordsSeen' = recordsSeen + Len(results)
    /\ UNCHANGED <<test, testResult, phase, summary, totalExecutions, groundVars, guardVars,
                   selectorVars, rerunVars, scoreVars, newVars>>

HandleNestedTest ==
    \E name \in TestNames, results \in SeqsUpTo(EntryStatuses, MaxEntryAttempts) :
        HandleTest("nested", name, results)

HandleDirectTest ==
    \E name \in TestNames, results \in SeqsUpTo(EntryStatuses, MaxEntryAttempts) :
        HandleTest("direct", name, results)

\* the code after the loops: testResultsList, summary
Summarize ==
    /\ phase = "folding"
    /\ phase' = "done"
    /\ summary' = summarize(testMap)
    /\ totalExecutions' = Some(Cardinality(executionMap))
    /\ UNCHANGED <<test, testResult, testMap, fed, executionMap, recordsSeen,
                   groundVars, guardVars, selectorVars, rerunVars, scoreVars, newVars>>

NextAnalyze == HandleNestedTest \/ HandleDirectTest \/ Summarize

SpecAnalyze == InitAnalyze /\ [][NextAnalyze]_vars

-----------------------------------------------------------------------------
(* MCP.ground: an MCP built with some scoreThreshold option grounds a Target *)

InitGround ==
    /\ thresholdOpt \in ThresholdOptions
    /\ scoreThreshold = scoreThresholdOf(thresholdOpt)
    /\ target \in {Some(t) : t \in Targets}
    /\ groundResult = Null
    /\ lastCandidates = <<>>
    /\ locatorCount = Null
    /\ stableSelectors = Null
    /\ ReducerIdle
    /\ GuardIdle
    /\ SelectorsIdle
    /\ RerunIdle
    /\ ScoreIdle
    /\ RestIdle

\* ground(page, target) for the Target of the state. Neither ground nor
\* generateSelectorCandidates asks the page anything (the locators are built
\* lazily), so the page is free in what the returned locator matches.
Ground ==
    /\ groundResult = Null
    /\ groundResult' = Some(ground(scoreThreshold, target[1]))
    /\ lastCandidates' = generateSelectorCandidates(target[1])
    /\ IF groundResult'[1].kind = "locator"
       THEN locatorCount' \in {Some(n) : n \in 0..MaxMatches}
       ELSE locatorCount' = Null
    /\ UNCHANGED <<thresholdOpt, scoreThreshold, target, stableSelectors, reducerVars,
                   guardVars, laterVars>>

\* SelectorUtils.generateStableSelectors for the hints of the Target of the state
GenerateStable ==
    /\ stableSelectors = Null
    /\ stableSelectors' = Some(generateStableSelectors(target[1]))
    /\ UNCHANGED <<thresholdOpt, scoreThreshold, target, groundResult, lastCandidates,
                   locatorCount, reducerVars, guardVars, laterVars>>

NextGround == Ground \/ GenerateStable

SpecGround == InitGround /\ [][NextGround]_vars

-----------------------------------------------------------------------------
(* MCP.validate, safeClick, safeFill: one MCP, one locator, and a page that *)
(* changes under the test between any two calls on the locator             *)

InitGuard ==
    /\ autoHealOpt \in {Null, Some(TRUE), Some(FALSE)}
    /\ enableAutoHeal = enableAutoHealOf(autoHealOpt)
    /\ page \in Pages
    /\ pc = "idle"
    /\ locator \in Locators
    /\ healedOn = Null
    /\ action = "click"
    /\ trace = <<>>
    /\ firstError = Null
    /\ outcome = Null
    /\ validated = Null
    /\ ReducerIdle
    /\ GroundIdle
    /\ SelectorsIdle
    /\ RerunIdle
    /\ ScoreIdle
    /\ RestIdle

\* the page changes what the locator matches
PageChange ==
    /\ page' \in Pages \ {page}
    /\ UNCHANGED healedOn
    /\ UNCHANGED <<locator, autoHealOpt, enableAutoHeal, pc, action, trace, firstError, outcome,
                   validated, reducerVars, groundVars, laterVars>>

\* a test calls mcp.validate(locator) itself
ValidateCall ==
    /\ pc \in {"idle", "done"}
    /\ validated' = Some([page |-> page, result |-> validate(page)])
    /\ UNCHANGED healedOn
    /\ UNCHANGED <<locator, autoHealOpt, enableAutoHeal, page, pc, action, trace, firstError,
                   outcome, reducerVars, groundVars, laterVars>>

Enter(act) ==
    /\ pc \in {"idle", "done"}
    /\ pc' = "validate"
    /\ action' = act
    /\ trace' = <<>>
    /\ firstError' = Null
    /\ outcome' = Null
    /\ healedOn' = Null
    /\ UNCHANGED <<locator, autoHealOpt, enableAutoHeal, page, validated,
                   reducerVars, groundVars, laterVars>>

SafeClick == Enter("click")

SafeFill == Enter("fill")

\* the catch block of safeClick / safeFill, entered with the error e
Catch(e) ==
    /\ firstError' = Some(e)
    /\ IF enableAutoHeal
       THEN pc' = "healWait" /\ outcome' = outcome
       ELSE pc' = "done" /\ outcome' = Some([ended |-> "raised", error |-> Some(e)])

\* await this.validate(locator) in the try block
GuardValidate ==
    /\ pc = "validate"
    /\ LET r == validate(page)
       IN  /\ validated' = Some([page |-> page, result |-> r])
           /\ trace' = Append(trace, [call |-> "validate", ok |-> r = Null])
           /\ IF r = Null
              THEN pc' = "interact" /\ UNCHANGED <<firstError, outcome>>
              ELSE Catch(r[1])
    /\ UNCHANGED healedOn
    /\ UNCHANGED <<locator, autoHealOpt, enableAutoHeal, page, action,
                   reducerVars, groundVars, laterVars>>

\* await locator.click() / locator.fill(value) in the try block
GuardInteract ==
    /\ pc = "interact"
    /\ \E ok \in BOOLEAN :
          /\ ok => actionable(page)
          /\ trace' = Append(trace, [call |-> action, ok |-> ok])
          /\ IF ok
             THEN /\ pc' = "done"
                  /\ outcome' = Some([ended |-> "returned", error |-> Null])
                  /\ UNCHANGED firstError
             ELSE Catch(interactionError(action, 1))
    /\ UNCHANGED healedOn
    /\ UNCHANGED <<locator, autoHealOpt, enableAutoHeal, page, action, validated, reducerVars,
                   groundVars, laterVars>>

\* autoHealClick / autoHealFill: await locator.waitFor({ state: 'visible', ... })
HealWait ==
    /\ pc = "healWait"
    /\ LET ok == waitForVisible(page)
       IN  /\ trace' = Append(trace, [call |-> "waitFor", ok |-> ok])
           /\ IF ok
              THEN pc' = "healInteract" /\ UNCHANGED outcome
              ELSE /\ pc' = "done"
                   /\ outcome' = Some([ended |-> "raised", error |-> Some(waitForError)])
    /\ healedOn' = Some(locator)
    /\ UNCHANGED <<locator, autoHealOpt, enableAutoHeal, page, action, firstError, validated,
                   reducerVars, groundVars, laterVars>>

\* autoHealClick / autoHealFill: await locator.click() / locator.fill(value)
HealInteract ==
    /\ pc = "healInteract"
    /\ \E ok \in BOOLEAN :
          /\ ok => actionable(page)
          /\ trace' = Append(trace, [call |-> action, ok |-> ok])
          /\ pc' = "done"
          /\ outcome' =
                IF ok THEN Some([ended |-> "returned", error |-> Null])
                ELSE Some([ended |-> "raised",
                           error |-> Some(interactionError(action, 2))])
    /\ UNCHANGED healedOn
    /\ UNCHANGED <<locator, autoHealOpt, enableAutoHeal, page, action, firstError, validated,
                   reducerVars, groundVars, laterVars>>

\* the steps of a running safeClick / safeFill call
GuardStep == GuardValidate \/ GuardInteract \/ HealWait \/ HealInteract

NextGuard == PageChange \/ ValidateCall \/ SafeClick \/ SafeFill \/ GuardStep

SpecGuard == InitGuard /\ [][NextGuard]_vars

\* every await of a running call settles: the calls on the locator return or
\* throw within their timeouts
FairSpecGuard == SpecGuard /\ WF_vars(GuardStep)

-----------------------------------------------------------------------------
(* SelectorUtils.findBestSelector over a list of selectors, each with what *)
(* the page holds for it                                                   *)

InitSelectors ==
    /\ selectorList \in SeqsUpTo(SelectorInputs, MaxSelectors)
    /\ scored = Null
    /\ best = Null
    /\ ReducerIdle
    /\ GroundIdle
    /\ GuardIdle
    /\ RerunIdle
    /\ ScoreIdle
    /\ RestIdle

FindBestSelector ==
    /\ best = Null
    /\ scored' = Some(scoreSelectors(selectorList))
    /\ best' = Some(findBestSelector(selectorList))
    /\ UNCHANGED <<selectorList, reducerVars, groundVars, guardVars, rerunVars, scoreVars,
                   restVars>>

NextSelectors == FindBestSelector

SpecSelectors == InitSelectors /\ [][NextSelectors]_vars

-----------------------------------------------------------------------------
(* The reducer run more than once over the same test records               *)

InitRerun ==
    /\ test \in [specTitle : TestNames, results : SeqsUpTo(Statuses, MaxAttempts)]
    /\ testResult = [called |-> FALSE, value |-> Null]
    /\ testMap = [n \in TestNames |-> Null]
    /\ fed = <<>>
    /\ phase = "folding"
    /\ summary = NoSummary
    /\ runs = <<>>
    /\ GroundIdle
    /\ GuardIdle
    /\ SelectorsIdle
    /\ ScoreIdle
    /\ RestIdle

RunProcessTest ==
    /\ Len(runs) < MaxRuns
    /\ \E id \in generateRandomTestId :
           runs' = Append(runs, withId(processTest(test), id))
    /\ UNCHANGED <<reducerVars, groundVars, guardVars, selectorVars, scoreVars, restVars>>

NextRerun == RunProcessTest

SpecRerun == InitRerun /\ [][NextRerun]_vars

-----------------------------------------------------------------------------
(* calculateSelectorScore: one test, one MCP report (or none), scored by   *)
(* the report generator and by FlakinessAnalyzer                           *)

InitScore ==
    /\ scoreInput \in ScoreInputs
    /\ mcpReport \in {Null} \cup {Some(r) : r \in SeqsUpTo(ReportEntries, MaxReportEntries)}
    /\ selectorScore = Null
    /\ analyzerScore = Null
    /\ ReducerIdle
    /\ GroundIdle
    /\ GuardIdle
    /\ SelectorsIdle
    /\ RerunIdle
    /\ RestIdle

CalculateSelectorScore ==
    /\ selectorScore = Null
    /\ selectorScore' = Some(calculateSelectorScore(scoreInput, mcpReport))
    /\ UNCHANGED <<scoreInput, mcpReport, analyzerScore,
                   reducerVars, groundVars, guardVars, selectorVars, rerunVars, restVars>>

AnalyzerSelectorScore ==
    /\ analyzerScore = Null
    /\ analyzerScore' = Some(analyzerSelectorScore(scoreInput))
    /\ UNCHANGED <<scoreInput, mcpReport, selectorScore,
                   reducerVars, groundVars, guardVars, selectorVars, rerunVars, restVars>>

NextScore == CalculateSelectorScore \/ AnalyzerSelectorScore

SpecScore == InitScore /\ [][NextScore]_vars

-----------------------------------------------------------------------------
(* The web test server: requests and process events in any interleaving    *)

InitServer ==
    /\ ServerIdle
    /\ EarlierIdle
    /\ SharedIdle
    /\ StableIdle
    /\ NetworkIdle

\* POST /api/execute-tests, with executeTestsInBackground up to its first
\* await; a body without testFiles makes buildPlaywrightCommand throw
ExecuteTests ==
    /\ accepted < MaxExecutions
    /\ \E wellFormed \in BOOLEAN :
          IF currentExecution.isRunning
          THEN /\ lastResponse' = Some(400)
               /\ UNCHANGED <<currentExecution, children, accepted, settled, lastBroadcast>>
          ELSE /\ accepted' = accepted + 1
               /\ lastResponse' = Some(200)
               /\ IF wellFormed
                  THEN /\ currentExecution' = launched(NewExecution)
                       /\ children' = children \cup {accepted + 1}
                       /\ lastBroadcast' = Some("status")
                       /\ UNCHANGED settled
                  ELSE /\ currentExecution' = failedExecution(NewExecution)
                       /\ lastBroadcast' = Some("execution-error")
                       /\ settled' = [settled EXCEPT ![accepted + 1] =
                             Some(Settlement("not spawned", currentExecution',
                                             "execution-error"))]
                       /\ UNCHANGED children
    /\ UNCHANGED <<earlierVars, sharedVars, stableVars, networkVars>>

\* POST /api/stop-execution
StopExecution ==
    /\ IF currentExecution.isRunning
       THEN /\ currentExecution' = stoppedExecution(currentExecution)
            /\ lastBroadcast' = Some("status")
            /\ lastResponse' = Some(200)
       ELSE /\ lastResponse' = Some(400)
            /\ UNCHANGED <<currentExecution, lastBroadcast>>
    /\ UNCHANGED <<children, accepted, settled, earlierVars, sharedVars, stableVars,
                   networkVars>>

\* child.on('close') of the process of run r and what executeTestsInBackground
\* does once its promise settled
ProcessClose(r) ==
    /\ r \in children
    /\ children' = children \ {r}
    /\ \E code \in {0, 1} :
          IF code = 0
          THEN /\ currentExecution' = completedExecution(currentExecution)
               /\ lastBroadcast' = Some("execution-complete")
               /\ settled' = [settled EXCEPT ![r] =
                     Some(Settlement("exit 0", currentExecution', "execution-complete"))]
          ELSE /\ currentExecution' = failedExecution(currentExecution)
               /\ lastBroadcast' = Some("execution-error")
               /\ settled' = [settled EXCEPT ![r] =
                     Some(Settlement("exit 1", currentExecution', "execution-error"))]
    /\ UNCHANGED <<accepted, lastResponse, earlierVars, sharedVars, stableVars, networkVars>>

\* child.on('error'): the process of run r could not be started
ProcessError(r) ==
    /\ r \in children
    /\ children' = children \ {r}
    /\ currentExecution' = failedExecution(currentExecution)
    /\ lastBroadcast' = Some("execution-error")
    /\ settled' = [settled EXCEPT ![r] =
          Some(Settlement("not started", currentExecution', "execution-error"))]
    /\ UNCHANGED <<accepted, lastResponse, earlierVars, sharedVars, stableVars, networkVars>>

ProcessEnd(r) == ProcessClose(r) \/ ProcessError(r)

ProcessEvent == \E r \in Runs : ProcessEnd(r)

NextServer == ExecuteTests \/ StopExecution \/ ProcessEvent

SpecServer == InitServer /\ [][NextServer]_vars

\* every spawned process exits or fails to start
FairSpecServer == SpecServer /\ \A r \in Runs : WF_vars(ProcessEnd(r))

-----------------------------------------------------------------------------
(* One MCP instance, built with a plan, and the calls the tests that share *)
(* it make on it, in any interleaving                                      *)

InitShared ==
    /\ plan \in Plans
    /\ selectorCache = {}
    /\ failureSignatures = {}
    /\ returned = [t \in Tests |-> Null]
    /\ EarlierIdle
    /\ ServerIdle
    /\ StableIdle
    /\ NetworkIdle

Returns(t, call, value) ==
    returned' = [returned EXCEPT ![t] = Some([call |-> call, value |-> value])]

CallGetStep(t) ==
    /\ \E stepId \in StepIds : Returns(t, "getStep", getStep(plan, stepId))
    /\ UNCHANGED <<plan, selectorCache, failureSignatures,
                   earlierVars, serverVars, stableVars, networkVars>>

CallGround(t) ==
    /\ \E tg \in SharedTargets :
          /\ Returns(t, "ground", ground(scoreThreshold, tg))
          /\ selectorCache' = cacheAfterGround(selectorCache, tg)
    /\ UNCHANGED <<plan, failureSignatures, earlierVars, serverVars, stableVars, networkVars>>

CallWaitFor(t) ==
    /\ \E tg \in SharedTargets, pg \in Pages :
          /\ Returns(t, "waitFor", waitFor(scoreThreshold, tg, pg))
          /\ selectorCache' = cacheAfterGround(selectorCache, tg)
    /\ UNCHANGED <<plan, failureSignatures, earlierVars, serverVars, stableVars, networkVars>>

CallValidate(t) ==
    /\ \E pg \in Pages : Returns(t, "validate", validate(pg))
    /\ UNCHANGED <<plan, selectorCache, failureSignatures,
                   earlierVars, serverVars, stableVars, networkVars>>

CallSafe(t, act) ==
    /\ \E pg \in Pages, firstWorks, retryWorks \in BOOLEAN :
          Returns(t, act, safeInteraction(pg, firstWorks, retryWorks))
    /\ UNCHANGED <<plan, selectorCache, failureSignatures,
                   earlierVars, serverVars, stableVars, networkVars>>

CallSafeClick(t) == CallSafe(t, "safeClick")

CallSafeFill(t) == CallSafe(t, "safeFill")

NextShared ==
    \E t \in Tests :
        \/ CallGetStep(t)
        \/ CallGround(t)
        \/ CallWaitFor(t)
        \/ CallValidate(t)
        \/ CallSafeClick(t)
        \/ CallSafeFill(t)

SpecShared == InitShared /\ [][NextShared]_vars

-----------------------------------------------------------------------------
(* clickStable / fillStable: one call, attempt by attempt                  *)

InitStable ==
    /\ retriesOpt \in RetryOptions
    /\ stableAction \in {"click", "fill"}
    /\ stableAttempt = 0
    /\ stablePc = "loop"
    /\ attempts = <<>>
    /\ stableOutcome = Null
    /\ EarlierIdle
    /\ SharedIdle
    /\ ServerIdle
    /\ NetworkIdle

\* one pass through the loop body: the try block and the catch block up to
\* its throw or its page.waitForTimeout(1000)
StableTry ==
    /\ stablePc = "loop"
    /\ stableAttempt <= retriesOf(retriesOpt)
    /\ \E o \in TryOutcomes :
          /\ attempts' = Append(attempts, o)
          /\ IF o = "ok"
             THEN /\ stablePc' = "done"
                  /\ stableOutcome' = Some([ended |-> "returned", error |-> Null])
             ELSE IF stableAttempt = retriesOf(retriesOpt)
             THEN /\ stablePc' = "done"
                  /\ stableOutcome' =
                        Some([ended |-> "raised",
                              error |-> Some(stableError(stableAction,
                                                         retriesOf(retriesOpt)))])
             ELSE /\ stablePc' = "wait"
                  /\ UNCHANGED stableOutcome
    /\ UNCHANGED <<retriesOpt, stableAction, stableAttempt,
                   earlierVars, sharedVars, serverVars, networkVars>>

\* the wait before the retry is over: attempt++
StableWait ==
    /\ stablePc = "wait"
    /\ stableAttempt' = stableAttempt + 1
    /\ stablePc' = "loop"
    /\ UNCHANGED <<retriesOpt, stableAction, attempts, stableOutcome,
                   earlierVars, sharedVars, serverVars, networkVars>>

\* the loop condition attempt <= retries is false: the function ends after the loop
StableLoopEnds ==
    /\ stablePc = "loop"
    /\ ~(stableAttempt <= retriesOf(retriesOpt))
    /\ stablePc' = "done"
    /\ stableOutcome' = Some([ended |-> "returned", error |-> Null])
    /\ UNCHANGED <<retriesOpt, stableAction, stableAttempt, attempts,
                   earlierVars, sharedVars, serverVars, networkVars>>

NextStable == StableTry \/ StableWait \/ StableLoopEnds

SpecStable == InitStable /\ [][NextStable]_vars

-----------------------------------------------------------------------------
(* waitForNetworkIdle: one call on a page whose requests start and end     *)
(* while the call polls                                                    *)

\* the call has registered its listeners; requests that started before the
\* call are in flight, the counter is 0, startTime and lastRequestTime are now
InitNetwork ==
    /\ networkOptions \in NetworkOptions
    /\ inFlight \in 0..MaxInFlight
    /\ pendingRequests = 0
    /\ now = 0
    /\ lastRequestTime = 0
    /\ nextPoll = 0
    /\ netPc = "waiting"
    /\ EarlierIdle
    /\ SharedIdle
    /\ ServerIdle
    /\ StableIdle

\* page.on('request')
RequestStarts ==
    /\ inFlight < MaxInFlight
    /\ inFlight' = inFlight + 1
    /\ pendingRequests' = pendingRequests + 1
    /\ lastRequestTime' = now
    /\ UNCHANGED <<networkOptions, now, nextPoll, netPc,
                   earlierVars, sharedVars, serverVars, stableVars>>

\* page.on('requestfinished') / page.on('requestfailed')
RequestEnds ==
    /\ inFlight > 0
    /\ inFlight' = inFlight - 1
    /\ pendingRequests' = pendingRequests - 1
    /\ lastRequestTime' = now
    /\ UNCHANGED <<networkOptions, now, nextPoll, netPc,
                   earlierVars, sharedVars, serverVars, stableVars>>

\* one polling period passes
Tick ==
    /\ now <= MaxTimeout
    /\ now' = now + 1
    /\ UNCHANGED <<networkOptions, inFlight, pendingRequests, lastRequestTime, nextPoll,
                   netPc, earlierVars, sharedVars, serverVars, stableVars>>

\* one pass of the while loop, once the wait of the pass before is over
Poll ==
    /\ netPc = "waiting"
    /\ now >= nextPoll
    /\ IF ~(now < networkOptions.timeout)
       THEN netPc' = "timedOut" /\ UNCHANGED nextPoll
       ELSE IF networkIdle(networkOptions, pendingRequests, now - lastRequestTime)
       THEN netPc' = "returned" /\ UNCHANGED nextPoll
       ELSE netPc' = netPc /\ nextPoll' = now + 1
    /\ UNCHANGED <<networkOptions, inFlight, pendingRequests, now, lastRequestTime,
                   earlierVars, sharedVars, serverVars, stableVars>>

NextNetwork == RequestStarts \/ RequestEnds \/ Tick \/ Poll

SpecNetwork == InitNetwork /\ [][NextNetwork]_vars

-----------------------------------------------------------------------------
(* Claims about processTest (SpecProcessTest)                              *)

NoFlakyRecord(results) == \A i \in 1..Len(results) : results[i] # "flaky"

\* the test of the state was given to processTest and produced a result
Classified == testResult.called /\ testResult.value # Null

classification == testResult.value[1].status

\* the status aliases of the automation engine, read as the status they stand for
AliasRead(s) ==
    IF s = "expected" THEN "passed" ELSE IF s = "unexpected" THEN "failed" ELSE s

\* C1 as stated: without a flaky-marked record, a single record is classified
\* passed when passed and failed when failed; with retries, first failed and
\* last passed is flaky, first failed and last failed is failed, and every other
\* first/last combination is classified as the last record's status itself.
C1_AsStated ==
    (Classified /\ NoFlakyRecord(test.results)) =>
        LET rs    == test.results
            first == rs[1]
            last  == rs[Len(rs)]
        IN  IF Len(rs) = 1
            THEN (last \in {"passed", "failed"} => classification = last)
            ELSE IF first = "failed" /\ last = "passed" THEN classification = "flaky"
            ELSE IF first = "failed" /\ last = "failed" THEN classification = "failed"
            ELSE classification = last

\* C1 amended: as C1, except that the status taken over from the single or the
\* last record is read through the aliases: expected counts as passed and
\* unexpected as failed; every other status is taken over unchanged.
C1_ClassifiesByFirstAndLast ==
    (Classified /\ NoFlakyRecord(test.results)) =>
        LET rs    == test.results
            first == rs[1]
            last  == rs[Len(rs)]
        IN  IF Len(rs) = 1
            THEN classification = AliasRead(last)
            ELSE IF first = "failed" /\ last = "passed" THEN classification = "flaky"
            ELSE IF first = "failed" /\ last = "failed" THEN classification = "failed"
            ELSE classification = AliasRead(last)

\* a retried sequence without marker, failed first and passed last, came out flaky
C1_Witness ==
    /\ Classified
    /\ NoFlakyRecord(test.results)
    /\ Len(test.results) = MaxAttempts
    /\ test.results[1] = "failed"
    /\ test.results[Len(test.results)] = "passed"
    /\ classification = "flaky"

\* C2: a sequence with a flaky-marked record at any position is classified
\* flaky, whatever the first, the last and the other records are.
C2_MarkerMeansFlaky ==
    (Classified /\ ~NoFlakyRecord(test.results)) => classification = "flaky"

\* the marker sits strictly inside a sequence that starts passed and ends failed
C2_Witness ==
    /\ Classified
    /\ Len(test.results) >= 3
    /\ test.results[1] = "passed"
    /\ test.results[2] = "flaky"
    /\ test.results[Len(test.results)] = "failed"
    /\ classification = "flaky"

-----------------------------------------------------------------------------
(* Claims about analyzeTestResults (SpecAnalyze)                           *)

Classifications == {"passed", "failed", "flaky"}

\* the per-environment classifications handled so far for test name n
ClassificationsOf(n) == {fed[i].status : i \in {j \in 1..Len(fed) : fed[j].name = n}}

\* flaky > failed > passed
Dominant(S) ==
    IF "flaky" \in S THEN "flaky" ELSE IF "failed" \in S THEN "failed" ELSE "passed"

\* every entry of test name n came through the same path (nested or direct)
OnePath(n) ==
    \E p \in {"nested", "direct"} :
        \A i \in 1..Len(fed) : fed[i].name = n => fed[i].path = p

\* C3: for every test name whose per-environment classifications are all among
\* passed, failed and flaky, the consolidated status is flaky if any environment
\* is flaky, else failed if any failed, else passed, in nested suites and in
\* suites with direct specs alike (the entries of a name all of one kind).
C3_Dominance ==
    \A n \in TestNames :
        (testMap[n] # Null /\ OnePath(n) /\ ClassificationsOf(n) \subseteq Classifications) =>
            testMap[n][1].status = Dominant(ClassificationsOf(n))

\* C3 holds of the nested-suite path taken alone: the two paths of the code disagree
NestedPathDominance ==
    \A n \in TestNames :
        (/\ testMap[n] # Null
         /\ ClassificationsOf(n) \subseteq Classifications
         /\ \A i \in 1..Len(fed) : fed[i].name = n => fed[i].path = "nested") =>
            testMap[n][1].status = Dominant(ClassificationsOf(n))

OrdersOf(n) == {f \in [1..n -> 1..n] : \A i, j \in 1..n : f[i] = f[j] => i = j}

Permuted(entries, f) == [i \in 1..Len(entries) |-> entries[f[i]]]

\* C10: the consolidated classification of every test name is the same for
\* every order in which the handled test entries could have been supplied
\* (the entries of a name all of one kind, nested or direct).
C10_OrderIndependent ==
    \A f \in OrdersOf(Len(fed)) :
        LET other == analyzeFrom([n \in TestNames |-> Null], Permuted(fed, f), 1)
        IN  \A n \in TestNames :
                (testMap[n] # Null /\ OnePath(n)) =>
                    other[n][1].status = testMap[n][1].status

-----------------------------------------------------------------------------
(* Claims about MCP.ground (SpecGround)                                    *)

\* the generator priority order: role > label > placeholder > identifier >
\* fallback > structural
PriorityOrder ==
    <<"getByRole", "getByLabel", "getByPlaceholder", "data-testid", "scoped-css",
      "structural-css">>

Priority(method) == CHOOSE i \in 1..Len(PriorityOrder) : PriorityOrder[i] = method

\* the candidates generated for the grounded Target, as a set
Generated ==
    LET cs == generateSelectorCandidates(target[1])
    IN  {cs[i] : i \in 1..Len(cs)}

\* those of them that score at or above this.scoreThreshold
Qualifying == {c \in Generated : c.score >= scoreThreshold}

MaxScore(S) == CHOOSE s \in S : \A x \in S : x <= s

\* C4: when some candidate scores at or above scoreThreshold, ground returns
\* the candidate with the highest score among those, and of several with that
\* score the one earliest in the generator priority order.
C4_GroundReturnsBest ==
    (groundResult # Null /\ Qualifying # {}) =>
        /\ groundResult[1].kind = "locator"
        /\ \E c \in Qualifying :
              /\ c.method = groundResult[1].method
              /\ c.score = groundResult[1].score
              /\ \A d \in Qualifying :
                    /\ d.score <= c.score
                    /\ d.score = c.score => Priority(c.method) <= Priority(d.method)

\* several candidates qualify, one does not, and the chosen one is not the
\* first strategy of the list
C4_Witness ==
    /\ groundResult # Null
    /\ Cardinality(Qualifying) >= 2
    /\ Generated # Qualifying
    /\ groundResult[1].kind = "locator"
    /\ groundResult[1].method = "getByLabel"

\* C5: when every candidate scores below scoreThreshold, or there is none,
\* ground raises the threshold error, and the best score it reports is the
\* maximum of the candidates' scores (0 when there is no candidate).
C5_ThresholdNotMet ==
    (groundResult # Null /\ Qualifying = {}) =>
        /\ groundResult[1].kind = "error"
        /\ groundResult[1].threshold = scoreThreshold
        /\ groundResult[1].best =
              IF Generated = {} THEN 0 ELSE MaxScore({c.score : c \in Generated})

\* two candidates were generated, both below the threshold, and the error
\* reports the better of them
C5_Witness ==
    /\ groundResult # Null
    /\ Cardinality(Generated) >= 2
    /\ Qualifying = {}
    /\ groundResult[1].kind = "error"
    /\ groundResult[1].best = FallbackScore

-----------------------------------------------------------------------------
(* Claims about MCP.validate and the guarded actions (SpecGuard)           *)

\* the error outcomes of validate, by the failed check
AmbiguousSelector == {countError(n) : n \in 2..MaxMatches}
ElementNotFound == {countError(0)}
NotVisible == {toBeVisibleError}
NotEnabled == {toBeEnabledError}

\* C6: on the page as it is at the call, validate throws an error of its own
\* kind for each failed check (several matches, no match, one hidden match, one
\* visible but disabled match; no error belongs to two kinds) and returns
\* normally exactly when the locator matches one visible, enabled element.
C6_ValidateOutcomes ==
    /\ AmbiguousSelector \cap ElementNotFound = {}
    /\ (AmbiguousSelector \cup ElementNotFound) \cap (NotVisible \cup NotEnabled) = {}
    /\ NotVisible \cap NotEnabled = {}
    /\ validated # Null =>
          LET pg == validated[1].page
              r  == validated[1].result
          IN  /\ pg.count > 1 => (r # Null /\ r[1] \in AmbiguousSelector)
              /\ pg.count = 0 => (r # Null /\ r[1] \in ElementNotFound)
              /\ (pg.count = 1 /\ ~pg.visible) => (r # Null /\ r[1] \in NotVisible)
              /\ (pg.count = 1 /\ pg.visible /\ ~pg.enabled) =>
                    (r # Null /\ r[1] \in NotEnabled)
              /\ r = Null <=> (pg.count = 1 /\ pg.visible /\ pg.enabled)

\* validate ran on a locator that matched nothing and threw the no-match error
C6_Witness ==
    /\ validated # Null
    /\ validated[1].page.count = 0
    /\ validated[1].result = Some(countError(0))

IsInteraction(e) == e.call \in {"click", "fill"}

Interactions == Cardinality({i \in 1..Len(trace) : IsInteraction(trace[i])})

Waits == Cardinality({i \in 1..Len(trace) : trace[i].call = "waitFor"})

\* C7: every click or fill a guard issues on the locator, the retry of the
\* recovery included, comes right after a validate run of that guard that passed.
C7_InteractionsValidated ==
    \A i \in 1..Len(trace) :
        IsInteraction(trace[i]) =>
            (i > 1 /\ trace[i - 1] = [call |-> "validate", ok |-> TRUE])

\* what holds of a guard call at every moment
C8_Bounded ==
    /\ Interactions <= 2
    /\ Waits <= 1
    /\ pc = "done" =>
          /\ outcome # Null
          /\ outcome[1].ended \in {"returned", "raised"}
          /\ firstError = Null => (Waits = 0 /\ Interactions = 1)
          /\ firstError # Null =>
                /\ Waits = 1
                /\ \E w \in 1..Len(trace) :
                      /\ trace[w].call = "waitFor"
                      /\ IF trace[w].ok
                         THEN Len(trace) = w + 1 /\ IsInteraction(trace[w + 1])
                         ELSE Len(trace) = w

\* C8: a guard call whose validation or interaction fails makes exactly one
\* recovery attempt, one wait and after it at most one retry; no call invokes
\* the interaction more than twice or the wait more than once; and every call
\* that was started ends, returning or raising.
C8_OneBoundedRecovery == [](C8_Bounded) /\ ((pc = "validate") ~> (pc = "done"))

\* a call ended raising after the first interaction and its one retry both failed
C8_Witness ==
    /\ pc = "done"
    /\ Interactions = 2
    /\ Waits = 1
    /\ firstError = Some(interactionError(action, 1))
    /\ outcome[1].ended = "raised"

\* C9: when the recovery fails too, the error raised to the caller is the
\* error of the first failed validation or interaction.
C9_OriginalErrorRaised ==
    (pc = "done" /\ outcome[1].ended = "raised" /\ firstError # Null) =>
        outcome[1].error = firstError

-----------------------------------------------------------------------------
(* Further claims about processTest (SpecProcessTest)                      *)

\* C13: whatever statuses the records carry, the classification processTest
\* emits is one of passed, failed, flaky, or the unknown fallback.
C13_ClosedClassification ==
    Classified => classification \in {"passed", "failed", "flaky", "unknown"}

\* C20: a sequence in which some attempt failed and a later attempt passed is
\* classified flaky, wherever the two attempts stand.
C20_FailThenPassIsFlaky ==
    (/\ Classified
     /\ \E i, j \in 1..Len(test.results) :
           i < j /\ test.results[i] = "failed" /\ test.results[j] = "passed") =>
        classification = "flaky"

-----------------------------------------------------------------------------
(* Further claims about the candidate generators and ground (SpecGround)   *)

ExplicitMethods == {"getByRole", "getByLabel", "getByPlaceholder", "data-testid", "scoped-css"}

\* the hint of strategy m is there for Target t
Applicable(m, t) ==
    IF m = "getByRole" THEN Truthy(t.role) /\ Truthy(t.name)
    ELSE IF m = "getByLabel" THEN Truthy(t.label)
    ELSE IF m = "getByPlaceholder" THEN Truthy(t.placeholder)
    ELSE IF m = "data-testid" THEN Truthy(t.testId)
    ELSE Truthy(t.fallback)

NoHint(t) ==
    \A h \in {t.role, t.name, t.label, t.placeholder, t.testId, t.fallback} : ~Truthy(h)

\* the list of strategies ms has one entry per applicable hint among the
\* strategies of E and none for the others, in priority order
OnePerHint(ms, E, t) ==
    /\ \A m \in E :
          Cardinality({i \in 1..Len(ms) : ms[i] = m}) = IF Applicable(m, t) THEN 1 ELSE 0
    /\ \A i, j \in 1..Len(ms) : i < j => Priority(ms[i]) < Priority(ms[j])
    /\ NoHint(t) => ms = <<>>

\* C16: both generators yield exactly one candidate per applicable hint and
\* none for an absent hint, in the order role > label > placeholder >
\* identifier > fallback > structural, and nothing for a Target without hint.
C16_OneCandidatePerHint ==
    /\ groundResult # Null =>
          OnePerHint([i \in 1..Len(lastCandidates) |-> lastCandidates[i].method],
                     ExplicitMethods, target[1])
    /\ stableSelectors # Null =>
          OnePerHint(stableSelectors[1], ExplicitMethods \ {"scoped-css"}, target[1])

\* a Target with every hint gave all strategies, in order, from both generators
C16_Witness ==
    /\ groundResult # Null
    /\ stableSelectors # Null
    /\ [i \in 1..Len(lastCandidates) |-> lastCandidates[i].method] = PriorityOrder
    /\ Len(stableSelectors[1]) = 5

\* C17: the structural candidate is in the list only when no explicit hint
\* yields a candidate.
C17_StructuralLastResort ==
    groundResult # Null =>
        ((\E i \in 1..Len(lastCandidates) : lastCandidates[i].method \in ExplicitMethods) =>
            (\A i \in 1..Len(lastCandidates) : lastCandidates[i].method # "structural-css"))

\* the threshold the MCP was built with: the supplied one, 0.8 when none was
SuppliedThreshold == IF thresholdOpt = Null THEN DefaultScoreThreshold ELSE thresholdOpt[1]

\* C18: ground compares the scores against the supplied scoreThreshold, 0
\* included, and against 0.8 only when none was supplied: it returns a locator
\* exactly when some candidate scores at or above that threshold.
C18_SuppliedThresholdUsed ==
    groundResult # Null =>
        (groundResult[1].kind = "locator" <=>
            \E i \in 1..Len(lastCandidates) : lastCandidates[i].score >= SuppliedThreshold)

\* C14: ground never returns a locator that matches no element on the page.
C14_NoZeroMatchLocator ==
    (groundResult # Null /\ groundResult[1].kind = "locator") => locatorCount[1] >= 1

-----------------------------------------------------------------------------
(* Claims about SelectorUtils.scoreSelectors (SpecSelectors)               *)

\* C15: every score scoreSelectors hands out lies in [0, 1].
C15_ScoresInUnitRange ==
    scored # Null =>
        \A i \in 1..Len(scored[1]) : 0 <= scored[1][i].score /\ scored[1][i].score <= 100

-----------------------------------------------------------------------------
(* Claims about the reducer run again (SpecRerun)                          *)

\* C11: two runs of the reducer over the same records give the same result,
\* the id of the result included.
C11_RerunIdentical ==
    \A i, j \in 1..Len(runs) : runs[i] = runs[j]

-----------------------------------------------------------------------------
(* Claims about calculateSelectorScore (SpecScore)                         *)

\* a score q lies in [0, 10]
InRange(q) == 0 <= q.num /\ q.num <= FullScore * q.den

\* the test with one more retry
OneMoreRetry(t) == [t EXCEPT !.attempts = @ + 1]

RECURSIVE recordedScores(_, _)
recordedScores(tests, title) ==
    IF tests = <<>> THEN <<>>
    ELSE (IF title # Null /\ tests[1].title = title[1] THEN tests[1].selectorScores ELSE <<>>)
         \o recordedScores(Tail(tests), title)

\* the fractions p and q are the same number
SameScore(p, q) == p.num * q.den = q.num * p.den

\* C19: when telemetry was recorded for the test the score is the mean of all
\* its recorded scores, and the heuristic is used only when none was recorded.
C19_MeanOfAllTelemetry ==
    selectorScore # Null =>
        LET recorded == IF mcpReport = Null THEN <<>>
                        ELSE recordedScores(mcpReport[1], scoreInput.title)
        IN  IF recorded # <<>>
            THEN SameScore(selectorScore[1], clampAverage(sumScores(recorded), Len(recorded)))
            ELSE selectorScore[1] = [num |-> heuristicScore(scoreInput), den |-> 1]

-----------------------------------------------------------------------------
(* Further claims about the guarded actions (SpecGuard)                    *)

\* C21: the auto-heal of a failed safeClick / safeFill acts on an alternative
\* locator of the ladder, not on the locator that just failed.
C21_HealFallsBack ==
    healedOn # Null => healedOn[1] \in Locators \ {locator}

\* C24: an MCP built with enableAutoHeal: false makes no recovery attempt: after
\* the first failed validation or interaction there is no wait and no second
\* interaction, and the call ends raising that first error.
C24_NoRecoveryWhenDisabled ==
    (autoHealOpt = Some(FALSE) /\ firstError # Null) =>
        /\ Waits = 0
        /\ Interactions <= 1
        /\ pc = "done"
        /\ outcome = Some([ended |-> "raised", error |-> firstError])

-----------------------------------------------------------------------------
(* Further claims about analyzeTestResults (SpecAnalyze)                   *)

\* C25: the execution map holds one entry per raw result record, so
\* summary.totalExecutions is the number of result records of the input.
C25_EveryRecordCounted ==
    /\ Cardinality(executionMap) = recordsSeen
    /\ totalExecutions # Null => totalExecutions[1] = recordsSeen

\* C26: after consolidation a test's isFlaky flag is true exactly when its
\* consolidated status is flaky.
C26_FlagMatchesStatus ==
    \A n \in TestNames :
        testMap[n] # Null => (testMap[n][1].isFlaky <=> testMap[n][1].status = "flaky")

-----------------------------------------------------------------------------
(* Claims about the status aliases in processTest (SpecProcessTest)        *)

\* the records with 'expected' replaced by 'passed' and 'unexpected' by 'failed'
Normalised(results) == [i \in 1..Len(results) |-> AliasRead(results[i])]

\* C23: replacing the aliases in the records by the statuses they stand for
\* never changes the classification processTest emits.
C23_AliasesNormalised ==
    Classified =>
        classification = finalStatus(Normalised(test.results))

-----------------------------------------------------------------------------
(* Claims about the web test server (SpecServer, FairSpecServer)           *)

\* C27: at most one spawned Playwright process is alive at any time.
C27_OneProcessAlive == Cardinality(children) <= 1

\* the end of a run is recorded as the claim says
SettledRight(r) ==
    settled[r] # Null =>
        LET e == settled[r][1]
        IN  /\ ~e.execution.isRunning
            /\ e.execution.endTime # Null
            /\ IF e.how = "exit 0"
               THEN e.execution.progress = 100 /\ e.message = "execution-complete"
               ELSE e.execution.progress = 0 /\ e.message = "execution-error"

\* C28: every accepted run whose process exits or fails to start comes to
\* isRunning = false with endTime set: with progress 100 and an
\* execution-complete message after exit code 0, with progress 0 and an
\* execution-error message otherwise.
C28_EveryRunSettles ==
    /\ [](\A r \in Runs : SettledRight(r))
    /\ \A r \in Runs : (accepted >= r) ~> (settled[r] # Null)

\* one run ended with exit code 0 and a later one with another code
C28_Witness ==
    /\ settled[1] # Null
    /\ settled[1][1].how = "exit 0"
    /\ settled[2] # Null
    /\ settled[2][1].how = "exit 1"

-----------------------------------------------------------------------------
(* Claims about the state of a shared MCP (SpecShared)                     *)

-----------------------------------------------------------------------------
(* Claims about clickStable / fillStable (SpecStable)                      *)

Succeeded == {i \in 1..Len(attempts) : attempts[i] = "ok"}

\* C29: for every options.retries a call makes at most retries + 1 attempts,
\* does the click or fill at most once, returns only after an attempt in which
\* the interaction succeeded, and otherwise raises the 'Failed to ... after N
\* attempts' error once the last attempt has failed.
C29_BoundedAttempts ==
    /\ Len(attempts) <= retriesOf(retriesOpt) + 1
    /\ Cardinality(Succeeded) <= 1
    /\ stablePc = "done" =>
          IF Succeeded # {}
          THEN /\ stableOutcome[1].ended = "returned"
               /\ attempts[Len(attempts)] = "ok"
          ELSE /\ stableOutcome[1].ended = "raised"
               /\ stableOutcome[1].error =
                     Some(stableError(stableAction, retriesOf(retriesOpt)))

-----------------------------------------------------------------------------
(* Claims about waitForNetworkIdle (SpecNetwork)                           *)

\* C30: the call returns only when at most maxRequests requests are in
\* flight and no request event occurred during the last idleTime, and its
\* counter of pending requests never drops below zero.
C30_ReturnsWhenIdle ==
    /\ [](pendingRequests >= 0)
    /\ [][(netPc = "waiting" /\ netPc' = "returned") =>
            /\ inFlight <= networkOptions.maxRequests
            /\ now - lastRequestTime >= networkOptions.idleTime]_vars

====
